---- MODULE Spec2Model ----
(***************************************************************************)
(* barrel-loader: the parse -> normalize -> reconstruct pipeline.          *)
(*                                                                         *)
(* Text is modelled byte for byte: a string is a sequence of one-character *)
(* strings, a file is such a sequence with "\n" separators.  The three     *)
(* regular expressions of the parser are matched character by character.   *)
(***************************************************************************)
EXTENDS Integers, Sequences, FiniteSets, TLC

(***************************************************************************)
(* Bounds of the model.                                                    *)
(***************************************************************************)
\* largest number of lines of a generated source file
MaxLines == 2
\* largest length of a generated record sequence
MaxRecs == 3
\* largest number of directory components of a generated path
MaxDepth == 2
\* largest number of lines of a source file handed in with a directory-like path
MaxDirLines == 1

(***************************************************************************)
(* Characters and string literals.                                         *)
(***************************************************************************)
NL == "\n"
CR == "\r"
\* White_Space as seen by str::trim and by \s of the regex crate
\* (the members that the generated inputs can contain)
WS == {" ", "\t", "\r", "\n", "\f"}
\* \w of the regex crate (ASCII part)
WordChars ==
    {"a","b","c","d","e","f","g","h","i","j","k","l","m",
     "n","o","p","q","r","s","t","u","v","w","x","y","z",
     "A","B","C","D","E","F","G","H","I","J","K","L","M",
     "N","O","P","Q","R","S","T","U","V","W","X","Y","Z",
     "0","1","2","3","4","5","6","7","8","9","_"}
\* ['"]
Quotes == {"'", "\""}

EXPORT == <<"e","x","p","o","r","t">>
TYPE == <<"t","y","p","e">>
FROM == <<"f","r","o","m">>
AS == <<"a","s">>
DEFAULT == <<"d","e","f","a","u","l","t">>
STAR == <<"*">>
EXPORT_TYPE == <<"e","x","p","o","r","t"," ","t","y","p","e">>
SLASHES == <<"/","/">>
\* the three values of ExportInfo.export_type
NAMED == <<"n","a","m","e","d">>
NAMESPACE == <<"n","a","m","e","s","p","a","c","e">>
TRUE_STR == <<"t","r","u","e">>
FALSE_STR == <<"f","a","l","s","e">>

(***************************************************************************)
(* str primitives.                                                         *)
(***************************************************************************)
\* s[i..] begins with p
StartsWithAt(s, p, i) ==
    /\ i >= 1
    /\ i + Len(p) - 1 <= Len(s)
    /\ \A k \in 1..Len(p) : s[i + k - 1] = p[k]

\* str::starts_with
StartsWith(s, p) == StartsWithAt(s, p, 1)

\* str::contains
Contains(s, p) == \E i \in 1..(Len(s) - Len(p) + 1) : StartsWithAt(s, p, i)

\* str::matches(p).count() : non-overlapping occurrences, scanning from i
RECURSIVE CountFrom(_, _, _)
CountFrom(s, p, i) ==
    IF i + Len(p) - 1 > Len(s) THEN 0
    ELSE IF StartsWithAt(s, p, i) THEN 1 + CountFrom(s, p, i + Len(p))
    ELSE CountFrom(s, p, i + 1)

\* str::trim
Trim(s) ==
    IF \A i \in 1..Len(s) : s[i] \in WS THEN <<>>
    ELSE LET lo == CHOOSE i \in 1..Len(s) :
                       s[i] \notin WS /\ \A k \in 1..(i - 1) : s[k] \in WS
             hi == CHOOSE i \in 1..Len(s) :
                       s[i] \notin WS /\ \A k \in (i + 1)..Len(s) : s[k] \in WS
         IN  SubSeq(s, lo, hi)

\* first index j >= i with s[j] in S, 0 when there is none
FirstIn(s, i, S) ==
    IF \E j \in i..Len(s) : s[j] \in S
    THEN CHOOSE j \in i..Len(s) : s[j] \in S /\ \A k \in i..(j - 1) : s[k] \notin S
    ELSE 0

\* str::split(sep) for a one-character separator: always at least one piece
RECURSIVE Split(_, _)
Split(s, sep) ==
    LET j == FirstIn(s, 1, {sep})
    IN  IF j = 0 THEN <<s>>
        ELSE <<SubSeq(s, 1, j - 1)>> \o Split(SubSeq(s, j + 1, Len(s)), sep)

\* str::lines : split on "\n", a final empty piece is not a line, and one
\* "\r" directly before a "\n" belongs to the line ending
RECURSIVE Lines(_)
Lines(s) ==
    IF Len(s) = 0 THEN <<>>
    ELSE LET j == FirstIn(s, 1, {NL})
         IN  IF j = 0 THEN <<s>>
             ELSE LET raw == SubSeq(s, 1, j - 1)
                      line == IF Len(raw) > 0 /\ raw[Len(raw)] = CR
                              THEN SubSeq(raw, 1, Len(raw) - 1) ELSE raw
                  IN  <<line>> \o Lines(SubSeq(s, j + 1, Len(s)))

\* [String]::join(sep)
RECURSIVE Join(_, _)
Join(ss, sep) ==
    IF Len(ss) = 0 THEN <<>>
    ELSE IF Len(ss) = 1 THEN ss[1]
    ELSE ss[1] \o sep \o Join(Tail(ss), sep)

(***************************************************************************)
(* Regular expressions.  A pattern is the sequence of its elements and is  *)
(* matched by backtracking, preferring the optional group and the longest  *)
(* repetition: the match that Regex::captures reports.                     *)
(***************************************************************************)
Elem(op, str, set, neg, min, max, cap, len) ==
    [op |-> op, str |-> str, set |-> set, neg |-> neg, min |-> min, max |-> max,
     cap |-> cap, len |-> len]

\* a literal
L(str) == Elem("lit", str, {}, FALSE, 0, 0, 0, 0)
\* (?: sub )? : the mark of the group, then the elements of the group
Opt(sub) == <<Elem("opt", <<>>, {}, FALSE, 0, 0, 0, Len(sub))>> \o sub
\* a character class repeated min..max times (max 0: unbounded), as capture
\* group cap when cap > 0; neg: the class is the complement of set
Rep(set, neg, min, max, cap) == Elem("rep", <<>>, set, neg, min, max, cap, 0)

WsPlus == Rep(WS, FALSE, 1, 0, 0)
WsStar == Rep(WS, FALSE, 0, 0, 0)
Quote == Rep(Quotes, FALSE, 1, 1, 0)
\* (\w+) as group 1
Word1 == Rep(WordChars, FALSE, 1, 0, 1)
\* ([^'"]+) as group 2
Source2 == Rep(Quotes, TRUE, 1, 0, 2)

\* export\s+(?:type\s+)?
ExportHead == <<L(EXPORT), WsPlus>> \o Opt(<<L(TYPE), WsPlus>>)
\* from\s+['"]([^'"]+)['"]
FromTail == <<L(FROM), WsPlus, Quote, Source2, Quote>>

\* export\s+(?:type\s+)?\{([^}]+)\}\s+from\s+['"]([^'"]+)['"]
NamedRe ==
    ExportHead \o <<L(<<"{">>), Rep({"}"}, TRUE, 1, 0, 1), L(<<"}">>), WsPlus>>
        \o FromTail

\* export\s+(?:type\s+)?\{\s*default\s*(?:as\s+(\w+))?\s*\}\s+from\s+['"]([^'"]+)['"]
DefaultRe ==
    ExportHead \o <<L(<<"{">>), WsStar, L(DEFAULT), WsStar>>
        \o Opt(<<L(AS), WsPlus, Word1>>) \o <<WsStar, L(<<"}">>), WsPlus>>
        \o FromTail

\* export\s+(?:type\s+)?\*\s+(?:as\s+(\w+)\s+)?from\s+['"]([^'"]+)['"]
NamespaceRe ==
    ExportHead \o <<L(STAR), WsPlus>> \o Opt(<<L(AS), WsPlus, Word1, WsPlus>>)
        \o FromTail

\* the groups of a match: each is <<>> (did not take part) or <<text>>
NoGroups == << <<>>, <<>> >>
NoMatch == [ok |-> FALSE, groups |-> NoGroups]

InClass(c, e) == IF e.neg THEN c \notin e.set ELSE c \in e.set

\* n, at most max when max > 0
AtMost(n, max) == IF max > 0 /\ n > max THEN max ELSE n

\* the first position from j on whose character is not in the class of e
RECURSIVE RunEnd(_, _, _)
RunEnd(s, j, e) ==
    IF j > Len(s) THEN j
    ELSE IF ~InClass(s[j], e) THEN j
    ELSE RunEnd(s, j + 1, e)

\* the number of characters from position i on that are in the class of e
RunLength(s, i, e) == AtMost(RunEnd(s, i, e) - i, e.max)

\* the first of two attempts that matched
OrElse(taken, other) == IF taken.ok THEN taken ELSE other

\* groups with the text s[i .. i+n-1] as group cap
Capture(groups, cap, s, i, n) ==
    IF cap > 0 THEN [groups EXCEPT ![cap] = <<SubSeq(s, i, i + n - 1)>>]
    ELSE groups

RECURSIVE Match(_, _, _, _, _)
RECURSIVE Repeat(_, _, _, _, _, _)
\* the elements k.. of re matched at position i of s.  A group that was
\* entered and did not lead to a match leaves no capture: the attempt without
\* the group starts from the groups as they were.
Match(re, k, s, i, groups) ==
    IF k > Len(re) THEN [ok |-> TRUE, groups |-> groups]
    ELSE IF re[k].op = "lit"
    THEN IF StartsWithAt(s, re[k].str, i)
         THEN Match(re, k + 1, s, i + Len(re[k].str), groups)
         ELSE NoMatch
    ELSE IF re[k].op = "opt"
    THEN OrElse(Match(re, k + 1, s, i, groups),
                Match(re, k + 1 + re[k].len, s, i, groups))
    ELSE Repeat(re, k, s, i, RunLength(s, i, re[k]), groups)

\* the class of element k taken n times at position i, then fewer times
Repeat(re, k, s, i, n, groups) ==
    IF n < re[k].min THEN NoMatch
    ELSE OrElse(Match(re, k + 1, s, i + n, Capture(groups, re[k].cap, s, i, n)),
                Repeat(re, k, s, i, n - 1, groups))

\* the match at the leftmost position from i on where one starts
RECURSIVE Leftmost(_, _, _)
Leftmost(re, s, i) ==
    IF i > Len(s) THEN NoMatch
    ELSE OrElse(Match(re, 1, s, i, NoGroups), Leftmost(re, s, i + 1))

\* Regex::captures
Captures(re, s) == Leftmost(re, s, 1)

(***************************************************************************)
(* The parser.                                                             *)
(***************************************************************************)
\* Option::None for the three pattern functions
None == [some |-> FALSE, pairs |-> <<>>]

IsNonEmpty(t) == Len(t) > 0

\* Option::Some of the (specifier, source) pairs
Some(pairs) == [some |-> TRUE, pairs |-> pairs]

\* caps.get(1) of a pattern whose group 1 is optional
AliasOr(caps, literal) ==
    IF Len(caps.groups[1]) = 0 THEN literal ELSE caps.groups[1][1]

\* specifiers.split(',').map(str::trim).filter(|s| !s.is_empty())
TrimAll(pieces) == [k \in 1..Len(pieces) |-> Trim(pieces[k])]
\* NamedTokens without .filter(|s| !s.is_empty())
NamedTokens_KeepEmpty(specifiers) == TrimAll(Split(specifiers, ","))

NamedTokens(specifiers) == SelectSeq(TrimAll(Split(specifiers, ",")), IsNonEmpty)

\* .map(|s| (s, source)).collect(), then None for an empty vector
NamedPairs(toks, source) ==
    IF Len(toks) = 0 THEN None
    ELSE Some([k \in 1..Len(toks) |-> <<toks[k], source>>])

NamedResult(caps) ==
    IF ~caps.ok THEN None
    ELSE NamedPairs(NamedTokens(caps.groups[1][1]), caps.groups[2][1])

parse_named_export(line) == NamedResult(Captures(NamedRe, line))

DefaultResult(caps) ==
    IF ~caps.ok THEN None
    ELSE Some(<< <<AliasOr(caps, DEFAULT), caps.groups[2][1]>> >>)

parse_default_export(line) == DefaultResult(Captures(DefaultRe, line))

\* NamespaceResult that never reads caps.get(1)
NamespaceResult_NoAlias(caps) ==
    IF ~caps.ok THEN None
    ELSE Some(<< <<STAR, caps.groups[2][1]>> >>)

NamespaceResult(caps) ==
    IF ~caps.ok THEN None
    ELSE Some(<< <<AliasOr(caps, STAR), caps.groups[2][1]>> >>)

parse_namespace_export(line) == NamespaceResult(Captures(NamespaceRe, line))

create_export(specifier, source, export_type, is_type_export, line_number) ==
    [specifier |-> specifier, source |-> source, export_type |-> export_type,
     is_type_export |-> is_type_export, line |-> line_number]

\* .map(|(spec, src)| create_export(spec, src, kind, is_type, line_number))
Exports(pairs, kind, is_type, line_number) ==
    [k \in 1..Len(pairs) |->
        create_export(pairs[k][1], pairs[k][2], kind, is_type, line_number)]

\* "Namespace exports", then nothing
TryNamespace(found, is_type, line_number) ==
    IF found.some THEN Exports(found.pairs, NAMESPACE, is_type, line_number)
    ELSE <<>>

\* "Default exports", then the next pattern
TryDefault(found, trimmed, is_type, line_number) ==
    IF found.some THEN Exports(found.pairs, DEFAULT, is_type, line_number)
    ELSE TryNamespace(parse_namespace_export(trimmed), is_type, line_number)

\* "Named exports", then the next pattern
TryNamed(found, trimmed, is_type, line_number) ==
    IF found.some THEN Exports(found.pairs, NAMED, is_type, line_number)
    ELSE TryDefault(parse_default_export(trimmed), trimmed, is_type, line_number)

\* ParseTrimmed without the starts_with("export") test
ParseTrimmed_AnyLine(trimmed, line_number) ==
    TryNamed(parse_named_export(trimmed), trimmed,
             Contains(trimmed, EXPORT_TYPE), line_number)

ParseTrimmed(trimmed, line_number) ==
    IF ~StartsWith(trimmed, EXPORT) THEN <<>>
    ELSE TryNamed(parse_named_export(trimmed), trimmed,
                  Contains(trimmed, EXPORT_TYPE), line_number)

parse_line(line, line_number) == ParseTrimmed(Trim(line), line_number)

\* Result::Ok / Result::Err
Ok(v) == [ok |-> TRUE, v |-> v]

RECURSIVE FlatMapLines(_, _)
FlatMapLines(lines, index) ==
    IF index > Len(lines) THEN <<>>
    ELSE parse_line(lines[index], index) \o FlatMapLines(lines, index + 1)

parse_exports(source) == Ok(FlatMapLines(Lines(source), 1))

(***************************************************************************)
(* Deduplication and sorting.                                              *)
(***************************************************************************)
\* format!("{}", bool)
FormatBool(b) == IF b THEN TRUE_STR ELSE FALSE_STR

\* DedupKey with the line number as a fifth part of the key
DedupKey_WithLine(exp) ==
    exp.export_type \o <<":">> \o exp.specifier \o <<":">> \o exp.source
        \o <<":">> \o FormatBool(exp.is_type_export) \o <<":">>
        \o [k \in 1..exp.line |-> "|"]

\* format!("{}:{}:{}:{}", export_type, specifier, source, is_type_export)
DedupKey(exp) ==
    exp.export_type \o <<":">> \o exp.specifier \o <<":">> \o exp.source
        \o <<":">> \o FormatBool(exp.is_type_export)

\* filter(|exp| seen.insert(key)) : keep a record iff its key is new
RECURSIVE DedupFrom(_, _)
DedupFrom(exports, seen) ==
    IF Len(exports) = 0 THEN <<>>
    ELSE LET key == DedupKey(exports[1])
         IN  IF key \in seen THEN DedupFrom(Tail(exports), seen)
             ELSE <<exports[1]>> \o DedupFrom(Tail(exports), seen \cup {key})

remove_duplicates(exports) == DedupFrom(exports, {})

\* the characters of the model in increasing code-point order (backslash and
\* backquote, which no input contains, are left out)
Ascii ==
    <<"\t", "\n", "\f", "\r",
      " ", "!", "\"", "#", "$", "%", "&", "'", "(", ")", "*", "+",
      ",", "-", ".", "/", "0", "1", "2", "3", "4", "5", "6", "7",
      "8", "9", ":", ";", "<", "=", ">", "?", "@", "A", "B", "C",
      "D", "E", "F", "G", "H", "I", "J", "K", "L", "M", "N", "O",
      "P", "Q", "R", "S", "T", "U", "V", "W", "X", "Y", "Z", "[",
      "]", "^", "_", "a", "b", "c", "d", "e", "f", "g",
      "h", "i", "j", "k", "l", "m", "n", "o", "p", "q", "r", "s",
      "t", "u", "v", "w", "x", "y", "z", "{", "|", "}", "~">>

Ord(c) == CHOOSE n \in 1..Len(Ascii) : Ascii[n] = c

\* str::cmp : a < b in the lexicographic order of the bytes
RECURSIVE StrLess(_, _)
StrLess(a, b) ==
    IF Len(b) = 0 THEN FALSE
    ELSE IF Len(a) = 0 THEN TRUE
    ELSE IF a[1] # b[1] THEN Ord(a[1]) < Ord(b[1])
    ELSE StrLess(Tail(a), Tail(b))

\* ExportLess with the line number as a third key
ExportLess_ThenLine(a, b) ==
    IF a.source # b.source THEN StrLess(a.source, b.source)
    ELSE IF a.specifier # b.specifier THEN StrLess(a.specifier, b.specifier)
    ELSE a.line < b.line

\* the comparator of sort_by : Ordering::Less
ExportLess(a, b) ==
    IF a.source # b.source THEN StrLess(a.source, b.source)
    ELSE StrLess(a.specifier, b.specifier)

\* slice::sort_by is a stable sort: insert each element after its equals
RECURSIVE InsertSorted(_, _)
InsertSorted(sorted, e) ==
    IF Len(sorted) = 0 THEN <<e>>
    ELSE IF ExportLess(e, sorted[1]) THEN <<e>> \o sorted
    ELSE <<sorted[1]>> \o InsertSorted(Tail(sorted), e)

RECURSIVE SortFrom(_, _)
SortFrom(exports, sorted) ==
    IF Len(exports) = 0 THEN sorted
    ELSE SortFrom(Tail(exports), InsertSorted(sorted, exports[1]))

\* sort_exports that returns the vector as it came
sort_exports_AsGiven(exports) == exports

sort_exports(exports) == SortFrom(exports, <<>>)

(***************************************************************************)
(* Grouping and reconstruction.                                            *)
(***************************************************************************)
\* the keys of the HashMap built by group_exports_by_source
SourceKeys(exports) == {exports[k].source : k \in 1..Len(exports)}

\* HashMap<String, (Vec<ExportInfo>, Vec<ExportInfo>)> : pushes keep the order
\* of the record sequence inside each of the two vectors
group_exports_by_source(exports) ==
    [key \in SourceKeys(exports) |->
        LET IsValue(exp) == exp.source = key /\ ~exp.is_type_export
            IsType(exp) == exp.source = key /\ exp.is_type_export
        IN  <<SelectSeq(exports, IsValue), SelectSeq(exports, IsType)>>]

\* The orders in which iterating the HashMap can yield its entries.  The map
\* is hashed with a per-instance random state, so every order is possible.
IterOrders(source_map) ==
    {iter \in [1..Cardinality(DOMAIN source_map) -> DOMAIN source_map] :
        \A i, j \in DOMAIN iter : i # j => iter[i] # iter[j]}

IsNamespace(e) == e.export_type = NAMESPACE
IsDefault(e) == e.export_type = DEFAULT
IsNamed(e) == e.export_type = NAMED

\* the pieces of the format strings
Q == <<"\"">>
SEMI == <<";">>
SP == <<" ">>
EXPORT_ == EXPORT \o SP
EXPORT_TYPE_ == EXPORT_TYPE \o SP
FROM_Q == SP \o FROM \o SP \o Q
END_Q == Q \o SEMI

\* exports.iter().map(|e| e.specifier).collect().join(", ")
Specifiers(named) == Join([k \in 1..Len(named) |-> named[k].specifier], <<",", " ">>)

\* the value-export lines of one source (the "Handle value exports" block)
generate_value_exports(exports, source) ==
    LET namespace_exports == SelectSeq(exports, IsNamespace)
        default_exports == SelectSeq(exports, IsDefault)
        named_exports == SelectSeq(exports, IsNamed)
    IN  [k \in 1..Len(namespace_exports) |->
            IF namespace_exports[k].specifier = STAR
            THEN EXPORT_ \o STAR \o FROM_Q \o source \o END_Q
            ELSE EXPORT_ \o STAR \o SP \o AS \o SP \o namespace_exports[k].specifier
                     \o FROM_Q \o source \o END_Q]
        \o
        [k \in 1..Len(default_exports) |->
            IF default_exports[k].specifier = DEFAULT
            THEN EXPORT_ \o <<"{", " ">> \o DEFAULT \o <<" ", "}">> \o FROM_Q \o source \o END_Q
            ELSE EXPORT_ \o <<"{", " ">> \o DEFAULT \o SP \o AS \o SP
                     \o default_exports[k].specifier \o <<" ", "}">> \o FROM_Q \o source \o END_Q]
        \o
        (IF Len(named_exports) = 0 THEN <<>>
         ELSE <<EXPORT_ \o <<"{", " ">> \o Specifiers(named_exports) \o <<" ", "}">>
                    \o FROM_Q \o source \o END_Q>>)

\* type_exports.rs
generate_namespace(exports, source) ==
    LET found == SelectSeq(exports, IsNamespace)
    IN  [k \in 1..Len(found) |->
            IF found[k].specifier = STAR
            THEN EXPORT_TYPE_ \o STAR \o FROM_Q \o source \o END_Q
            ELSE EXPORT_TYPE_ \o STAR \o SP \o AS \o SP \o found[k].specifier
                     \o FROM_Q \o source \o END_Q]

generate_default(exports, source) ==
    LET found == SelectSeq(exports, IsDefault)
    IN  [k \in 1..Len(found) |->
            IF found[k].specifier = DEFAULT
            THEN EXPORT_TYPE_ \o <<"{", " ">> \o DEFAULT \o <<" ", "}">> \o FROM_Q \o source \o END_Q
            ELSE EXPORT_TYPE_ \o <<"{", " ">> \o DEFAULT \o SP \o AS \o SP
                     \o found[k].specifier \o <<" ", "}">> \o FROM_Q \o source \o END_Q]

generate_named(exports, source) ==
    LET named == SelectSeq(exports, IsNamed)
    IN  IF Len(named) = 0 THEN <<>>
        ELSE <<EXPORT_TYPE_ \o <<"{", " ">> \o Specifiers(named) \o <<" ", "}">>
                   \o FROM_Q \o source \o END_Q>>

\* generate_type_exports with the named line pushed first
generate_type_exports_NamedFirst(exports, source) ==
    generate_named(exports, source) \o generate_namespace(exports, source)
        \o generate_default(exports, source)

generate_type_exports(exports, source) ==
    generate_namespace(exports, source) \o generate_default(exports, source)
        \o generate_named(exports, source)

\* one step of the loop: stop at an export line, keep the line or drop it
RECURSIVE KeepLeading(_)
\* KeepStep that looks for "//" at the start of the untrimmed line
KeepStep_WholeLine(line, trimmed, later) ==
    IF StartsWith(trimmed, EXPORT) THEN <<>>
    ELSE IF Len(trimmed) > 0 /\ ~StartsWith(line, SLASHES)
    THEN <<line>> \o KeepLeading(later)
    ELSE KeepLeading(later)

KeepStep(line, trimmed, later) ==
    IF StartsWith(trimmed, EXPORT) THEN <<>>
    ELSE IF Len(trimmed) > 0 /\ ~StartsWith(trimmed, SLASHES)
    THEN <<line>> \o KeepLeading(later)
    ELSE KeepLeading(later)

\* "Keep original non-export content": the loop over original_source.lines()
KeepLeading(lines) ==
    IF Len(lines) = 0 THEN <<>>
    ELSE KeepStep(lines[1], Trim(lines[1]), Tail(lines))

\* "Generate reconstructed exports": the loop over source_map, whose entries
\* come in the order iter
RECURSIVE GroupLines(_, _)
GroupLines(source_map, iter) ==
    IF Len(iter) = 0 THEN <<>>
    ELSE generate_value_exports(source_map[iter[1]][1], iter[1])
             \o generate_type_exports(source_map[iter[1]][2], iter[1])
             \o GroupLines(source_map, Tail(iter))

\* the trailing empty line, then lines.join("\n")
JoinLines(lines) ==
    Join(IF Len(lines) > 0 THEN lines \o << <<>> >> ELSE lines, <<NL>>)

\* reconstruct_source without the is_empty() exit
reconstruct_source_NoExit(original_source, exports, iter) ==
    JoinLines(KeepLeading(Lines(original_source))
                  \o GroupLines(group_exports_by_source(exports), iter))

\* iter : the order in which the HashMap yields its entries in this call
reconstruct_source(original_source, exports, iter) ==
    IF Len(exports) = 0 THEN original_source
    ELSE JoinLines(KeepLeading(Lines(original_source))
                       \o GroupLines(group_exports_by_source(exports), iter))

(***************************************************************************)
(* The classifier.                                                         *)
(***************************************************************************)
INDEX_TS == <<"i","n","d","e","x",".","t","s">>
INDEX_JS == <<"i","n","d","e","x",".","j","s">>
INDEX_TSX == <<"i","n","d","e","x",".","t","s","x">>
INDEX_JSX == <<"i","n","d","e","x",".","j","s","x">>

IsNormal(c) == Len(c) > 0 /\ c # <<".">>

\* the last component, when there is one and it is not ".."
LastNormal(comps) ==
    IF Len(comps) = 0 \/ comps[Len(comps)] = <<".", ".">>
    THEN [some |-> FALSE, name |-> <<>>]
    ELSE [some |-> TRUE, name |-> comps[Len(comps)]]

\* Path::file_name on Unix: the last component when it is a normal one.
\* Repeated and trailing separators and "." components are not components
\* of a path; a path that ends in ".." has no file name.
file_name(file_path) == LastNormal(SelectSeq(Split(file_path, "/"), IsNormal))

\* matches!(name, "index.ts" | "index.js" | "index.tsx" | "index.jsx")
IsIndexName(name) ==
    name.some /\ name.name \in {INDEX_TS, INDEX_JS, INDEX_TSX, INDEX_JSX}

is_barrel_file(file_path) == IsIndexName(file_name(file_path))

(***************************************************************************)
(* The pipeline.                                                           *)
(***************************************************************************)
\* Option<bool>
OptBool == {"None", "Some(true)", "Some(false)"}

\* Option::unwrap_or
UnwrapOr(opt, default) == IF opt = "None" THEN default ELSE opt = "Some(true)"

\* BarrelLoaderOptions::default()
DefaultOptions ==
    [optimize |-> "None", sort |-> "None", remove_duplicates |-> "None",
     verbose |-> "None", convert_namespace_to_named |-> "None",
     resolve_barrel_exports |-> "None"]

\* "Sort exports if requested"
Sorted(exports, options) ==
    IF UnwrapOr(options.sort, FALSE) THEN sort_exports(exports) ELSE exports

\* "Remove duplicates if requested"
Deduped(exports, options) ==
    IF UnwrapOr(options.remove_duplicates, TRUE) THEN remove_duplicates(exports)
    ELSE exports

\* the records that process_file hands to reconstruct_source
Normalized(exports, options) == Sorted(Deduped(exports, options), options)

\* Transform without the two is_empty() exits
Transform_AlwaysRebuild(parsed, source, options, iter) ==
    IF ~parsed.ok THEN parsed
    ELSE Ok(JoinLines(KeepLeading(Lines(source))
                \o GroupLines(group_exports_by_source(Normalized(parsed.v, options)),
                              iter)))

\* process_file after the call of parse_exports
Transform(parsed, source, options, iter) ==
    IF ~parsed.ok THEN parsed
    ELSE IF Len(parsed.v) = 0 THEN Ok(source)
    ELSE Ok(reconstruct_source(source, Normalized(parsed.v, options), iter))

\* iter : the iteration order of the HashMap that reconstruct_source builds
process_file(source, file_path, options, iter) ==
    Transform(parse_exports(source), source, options, iter)

process(source, file_path, options, iter) ==
    IF ~is_barrel_file(file_path) THEN Ok(source)
    ELSE process_file(source, file_path, options, iter)

\* the HashMap iteration orders that a call of process can meet
ProcessOrders(source, file_path, options) ==
    IF ~is_barrel_file(file_path) THEN {<<>>}
    ELSE IterOrders(group_exports_by_source(
             Normalized(parse_exports(source).v, options)))

(***************************************************************************)
(* The inputs.  A source file is written line by line from line shapes: a  *)
(* shape says what the line is (which statement, which names, which module *)
(* path, which spacing and quotes), RenderLine is the text of the line.    *)
(***************************************************************************)
\* export { Button } from "./Button";
LineButton ==
    [form |-> "named", indent |-> <<>>, gap |-> <<" ">>, typed |-> FALSE,
     items |-> <<[pre |-> <<" ">>, name |-> <<"B","u","t","t","o","n">>, post |-> <<" ">>]>>,
     alias |-> <<>>, module |-> <<".","/","B","u","t","t","o","n">>, quote |-> "\"", tail |-> <<";">>,
     text |-> <<>>]

\*   export  type {A,, B } from './App'
LineLoose ==
    [form |-> "named", indent |-> <<" "," ">>, gap |-> <<" "," ">>, typed |-> TRUE,
     items |-> <<[pre |-> <<>>, name |-> <<"A">>, post |-> <<>>], [pre |-> <<>>, name |-> <<>>, post |-> <<>>], [pre |-> <<" ">>, name |-> <<"B">>, post |-> <<" ">>]>>,
     alias |-> <<>>, module |-> <<".","/","A","p","p">>, quote |-> "'", tail |-> <<>>,
     text |-> <<>>]

\* export { , } from "./App";
LineNoToken ==
    [form |-> "named", indent |-> <<>>, gap |-> <<" ">>, typed |-> FALSE,
     items |-> <<[pre |-> <<" ">>, name |-> <<>>, post |-> <<>>], [pre |-> <<" ">>, name |-> <<>>, post |-> <<>>]>>,
     alias |-> <<>>, module |-> <<".","/","A","p","p">>, quote |-> "\"", tail |-> <<";">>,
     text |-> <<>>]

\* export { default as App } from "./App";
LineDefaultAs ==
    [form |-> "default", indent |-> <<>>, gap |-> <<" ">>, typed |-> FALSE,
     items |-> <<>>,
     alias |-> <<"A","p","p">>, module |-> <<".","/","A","p","p">>, quote |-> "\"", tail |-> <<";">>,
     text |-> <<>>]

\* export type { default } from "./Button";
LineTypeDefault ==
    [form |-> "default", indent |-> <<>>, gap |-> <<" ">>, typed |-> TRUE,
     items |-> <<>>,
     alias |-> <<>>, module |-> <<".","/","B","u","t","t","o","n">>, quote |-> "\"", tail |-> <<";">>,
     text |-> <<>>]

\* export * from "./App";
LineStar ==
    [form |-> "namespace", indent |-> <<>>, gap |-> <<" ">>, typed |-> FALSE,
     items |-> <<>>,
     alias |-> <<>>, module |-> <<".","/","A","p","p">>, quote |-> "\"", tail |-> <<";">>,
     text |-> <<>>]

\* export type * as ns from './Button';
LineTypeStarAs ==
    [form |-> "namespace", indent |-> <<>>, gap |-> <<" ">>, typed |-> TRUE,
     items |-> <<>>,
     alias |-> <<"n","s">>, module |-> <<".","/","B","u","t","t","o","n">>, quote |-> "'", tail |-> <<";">>,
     text |-> <<>>]

\* export const x = 1;
LineConst ==
    [form |-> "raw", indent |-> <<>>, gap |-> <<" ">>, typed |-> FALSE,
     items |-> <<>>,
     alias |-> <<>>, module |-> <<>>, quote |-> "\"", tail |-> <<";">>,
     text |-> <<"e","x","p","o","r","t"," ","c","o","n","s","t"," ","x"," ","="," ","1",";">>]

\* // export { A } from "./App";
LineCommented ==
    [form |-> "raw", indent |-> <<>>, gap |-> <<" ">>, typed |-> FALSE,
     items |-> <<>>,
     alias |-> <<>>, module |-> <<>>, quote |-> "\"", tail |-> <<";">>,
     text |-> <<"/","/"," ","e","x","p","o","r","t"," ","{"," ","A"," ","}"," ","f","r","o","m"," ","\"",".","/","A","p","p","\"",";">>]

\* import x from "./x";
LineImport ==
    [form |-> "raw", indent |-> <<>>, gap |-> <<" ">>, typed |-> FALSE,
     items |-> <<>>,
     alias |-> <<>>, module |-> <<>>, quote |-> "\"", tail |-> <<";">>,
     text |-> <<"i","m","p","o","r","t"," ","x"," ","f","r","o","m"," ","\"",".","/","x","\"",";">>]

\* (an empty line)
LineBlank ==
    [form |-> "raw", indent |-> <<>>, gap |-> <<" ">>, typed |-> FALSE,
     items |-> <<>>,
     alias |-> <<>>, module |-> <<>>, quote |-> "\"", tail |-> <<";">>,
     text |-> <<>>]

\* export { A } from ./App;
LineUnquoted ==
    [form |-> "raw", indent |-> <<>>, gap |-> <<" ">>, typed |-> FALSE,
     items |-> <<>>,
     alias |-> <<>>, module |-> <<>>, quote |-> "\"", tail |-> <<";">>,
     text |-> <<"e","x","p","o","r","t"," ","{"," ","A"," ","}"," ","f","r","o","m"," ",".","/","A","p","p",";">>]

\* export { a:b } from "c";
LineColonSpec ==
    [form |-> "named", indent |-> <<>>, gap |-> <<" ">>, typed |-> FALSE,
     items |-> <<[pre |-> <<" ">>, name |-> <<"a",":","b">>, post |-> <<" ">>]>>,
     alias |-> <<>>, module |-> <<"c">>, quote |-> "\"", tail |-> <<";">>,
     text |-> <<>>]

\* export { a } from "b:c";
LineColonModule ==
    [form |-> "named", indent |-> <<>>, gap |-> <<" ">>, typed |-> FALSE,
     items |-> <<[pre |-> <<" ">>, name |-> <<"a">>, post |-> <<" ">>]>>,
     alias |-> <<>>, module |-> <<"b",":","c">>, quote |-> "\"", tail |-> <<";">>,
     text |-> <<>>]

\* export { A } from "./export type";
LineTypePath ==
    [form |-> "named", indent |-> <<>>, gap |-> <<" ">>, typed |-> FALSE,
     items |-> <<[pre |-> <<" ">>, name |-> <<"A">>, post |-> <<" ">>]>>,
     alias |-> <<>>, module |-> <<".","/">> \o EXPORT_TYPE, quote |-> "\"", tail |-> <<";">>,
     text |-> <<>>]

\*   // note
LineIndentedComment ==
    [form |-> "raw", indent |-> <<>>, gap |-> <<" ">>, typed |-> FALSE,
     items |-> <<>>,
     alias |-> <<>>, module |-> <<>>, quote |-> "\"", tail |-> <<";">>,
     text |-> <<" "," ","/","/"," ","n","o","t","e">>]

\* the lines that files are combined from
LinePool ==
    {LineButton, LineLoose, LineNoToken, LineDefaultAs,
     LineTypeDefault, LineStar, LineTypeStarAs, LineConst,
     LineImport, LineBlank}

\* lines that are combined among themselves: text the patterns reject, and
\* names that hold a ':' or the text "export type"
OddPool ==
    {LineCommented, LineUnquoted, LineColonSpec, LineColonModule, LineTypePath}

RenderItem(it) == it.pre \o it.name \o it.post

RenderHead(d) ==
    d.indent \o EXPORT \o d.gap \o (IF d.typed THEN TYPE \o SP ELSE <<>>)

RenderFrom(d) == SP \o FROM \o SP \o <<d.quote>> \o d.module \o <<d.quote>> \o d.tail

RenderLine(d) ==
    IF d.form = "named"
    THEN RenderHead(d) \o <<"{">>
             \o Join([k \in 1..Len(d.items) |-> RenderItem(d.items[k])], <<",">>)
             \o <<"}">> \o RenderFrom(d)
    ELSE IF d.form = "default"
    THEN RenderHead(d) \o <<"{", " ">> \o DEFAULT
             \o (IF Len(d.alias) > 0 THEN SP \o AS \o SP \o d.alias ELSE <<>>)
             \o <<" ", "}">> \o RenderFrom(d)
    ELSE IF d.form = "namespace"
    THEN RenderHead(d) \o STAR
             \o (IF Len(d.alias) > 0 THEN SP \o AS \o SP \o d.alias ELSE <<>>)
             \o RenderFrom(d)
    ELSE d.text

\* the file with these lines; final_newline: the last line ends with "\n"
RenderSource(shapes, final_newline) ==
    Join([k \in 1..Len(shapes) |-> RenderLine(shapes[k])], <<NL>>)
        \o (IF final_newline /\ Len(shapes) > 0 THEN <<NL>> ELSE <<>>)

\* the sequences over S of length at most n
SeqsUpTo(S, n) == UNION {[1..k -> S] : k \in 0..n}

\* the line sequences of the files handed to process and parse_exports
SourceShapes == SeqsUpTo(LinePool, MaxLines) \cup SeqsUpTo(OddPool, MaxLines)

\* the file paths handed to process
BarrelPath == <<"/","x","/","i","n","d","e","x",".","t","s">>
OtherPath == <<"/","x","/","c","o","m","p","o","n","e","n","t",".","t","s">>
DirLikePath == BarrelPath \o <<"/">>
ProcessPaths == {BarrelPath, OtherPath, DirLikePath}

\* the configurations handed to BarrelLoader::new
OptionPool ==
    {DefaultOptions,
     [DefaultOptions EXCEPT !.sort = "Some(true)"],
     [DefaultOptions EXCEPT !.remove_duplicates = "Some(false)"],
     [optimize |-> "Some(true)", sort |-> "Some(false)",
      remove_duplicates |-> "Some(true)", verbose |-> "Some(true)",
      convert_namespace_to_named |-> "Some(true)",
      resolve_barrel_exports |-> "Some(true)"]}

\* A path is written from its parts: an optional root, directories, the last
\* segment and what follows it.
PathDirs == {<<"x">>, INDEX_TS}
PathBases ==
    {INDEX_TS, INDEX_JS, INDEX_TSX, INDEX_JSX,
     <<"I","n","d","e","x",".","t","s">>, <<"i","n","d","e","x">>, <<"i","n","d","e","x",".","t","s",".","b","a","k">>, <<"c","o","m","p","o","n","e","n","t",".","t","s">>, <<>>}
PathEndings == {<<>>, <<"/">>, <<"/", ".">>, <<"/", ".", ".">>}

RenderPath(ps) ==
    (IF ps.rooted THEN <<"/">> ELSE <<>>)
        \o Join([k \in 1..Len(ps.dirs) |-> ps.dirs[k] \o <<"/">>], <<>>)
        \o ps.base \o ps.ending

NoPathShape == [rooted |-> FALSE, dirs |-> <<>>, base |-> <<>>, ending |-> <<>>]

PathShapes ==
    [rooted : BOOLEAN, dirs : SeqsUpTo(PathDirs, MaxDepth), base : PathBases,
     ending : PathEndings]

\* the records handed to remove_duplicates and sort_exports
Rec(export_type, specifier, source, is_type_export, line) ==
    create_export(specifier, source, export_type, is_type_export, line)

RecordPool ==
    {Rec(NAMED, <<"a">>, <<"c">>, FALSE, 1),
     Rec(NAMED, <<"a">>, <<"c">>, FALSE, 2),
     Rec(NAMED, <<"a", ":", "b">>, <<"c">>, FALSE, 1),
     Rec(NAMED, <<"a">>, <<"b", ":", "c">>, FALSE, 2),
     Rec(DEFAULT, <<"a">>, <<"c">>, FALSE, 1),
     Rec(NAMED, <<"a">>, <<"c">>, TRUE, 1),
     Rec(NAMESPACE, <<"*">>, <<"c">>, FALSE, 3),
     Rec(NAMESPACE, <<"n", "s">>, <<"c">>, TRUE, 3),
     Rec(NAMED, <<"B">>, <<"b">>, FALSE, 2)}

\* the files and the records handed to reconstruct_source
HeadPool == LinePool \cup {LineCommented, LineIndentedComment}

HeadedShape == <<LineImport, LineButton>>

FewRecords == {<<>>, <<Rec(NAMED, <<"a">>, <<"c">>, FALSE, 1)>>}

(***************************************************************************)
(* The state machine: one input is drawn, then the exported functions are  *)
(* called on it.                                                           *)
(***************************************************************************)
VARIABLES
    task,       \* which entry points are exercised: "process", "records", "path"
    phase,      \* what has been called so far
    shape,      \* the line shapes the source was written from
    source,     \* the text of the file
    file_path,  \* the path of the file
    pathShape,  \* the parts the path was written from
    options,    \* the BarrelLoaderOptions of the loader
    recs,       \* the argument of remove_duplicates / sort_exports
    parsed,     \* the result of parse_exports(source)
    res1,       \* the result of process(source, file_path)
    res2,       \* the result of a second process(source, file_path)
    res12,      \* the result of process(res1, file_path)
    recsOut,    \* the result of remove_duplicates / sort_exports
    barrel,     \* the result of is_barrel_file(file_path)
    rebuilt,    \* the result of reconstruct_source(source, recs)
    order       \* the order in which that call met the module groups

vars == <<task, phase, shape, source, file_path, pathShape, options, recs,
          parsed, res1, res2, res12, recsOut, barrel, rebuilt, order>>

NoResult == [ok |-> FALSE, v |-> <<>>]

Blank ==
    /\ phase = "init"
    /\ parsed = NoResult /\ res1 = NoResult /\ res2 = NoResult /\ res12 = NoResult
    /\ recsOut = <<>> /\ barrel = FALSE
    /\ rebuilt = <<>> /\ order = <<>>

InitProcess ==
    /\ task = "process"
    /\ shape \in SourceShapes
    /\ \E final_newline \in BOOLEAN : source = RenderSource(shape, final_newline)
    /\ file_path \in ProcessPaths
    /\ file_path = DirLikePath => Len(shape) <= MaxDirLines
    /\ pathShape = NoPathShape
    /\ options \in OptionPool
    /\ recs = <<>>

InitRecords ==
    /\ task = "records"
    /\ recs \in SeqsUpTo(RecordPool, MaxRecs)
    /\ shape = <<>> /\ source = <<>> /\ file_path = <<>> /\ pathShape = NoPathShape
    /\ options = DefaultOptions

InitPath ==
    /\ task = "path"
    /\ pathShape \in PathShapes
    /\ file_path = RenderPath(pathShape)
    /\ shape = <<>> /\ source = <<>> /\ recs = <<>>
    /\ options = DefaultOptions

\* reconstruct_source is called with any file and few records, or with one
\* file and any records
InitRebuild ==
    /\ task = "rebuild"
    /\ \/ shape \in SeqsUpTo(HeadPool, MaxLines) /\ recs \in FewRecords
       \/ shape = HeadedShape /\ recs \in SeqsUpTo(RecordPool, MaxRecs)
    /\ \E final_newline \in BOOLEAN : source = RenderSource(shape, final_newline)
    /\ file_path = <<>> /\ pathShape = NoPathShape
    /\ options = DefaultOptions

Init == Blank /\ (InitProcess \/ InitRecords \/ InitPath \/ InitRebuild)

\* parse_exports_napi(source)
Parse ==
    /\ task = "process" /\ phase = "init"
    /\ parsed' = parse_exports(source)
    /\ phase' = "parsed"
    /\ UNCHANGED <<task, shape, source, file_path, pathShape, options, recs,
                   res1, res2, res12, recsOut, barrel, rebuilt, order>>

\* BarrelLoader::new(options).process(source, file_path)
ProcessFirst ==
    /\ task = "process" /\ phase = "init"
    /\ \E iter \in ProcessOrders(source, file_path, options) :
           res1' = process(source, file_path, options, iter)
    /\ phase' = "once"
    /\ UNCHANGED <<task, shape, source, file_path, pathShape, options, recs,
                   parsed, res2, res12, recsOut, barrel, rebuilt, order>>

\* the same call once more, on the same input
ProcessRepeat ==
    /\ task = "process" /\ phase = "once"
    /\ \E iter \in ProcessOrders(source, file_path, options) :
           res2' = process(source, file_path, options, iter)
    /\ phase' = "twice"
    /\ UNCHANGED <<task, shape, source, file_path, pathShape, options, recs,
                   parsed, res1, res12, recsOut, barrel, rebuilt, order>>

\* process called on the text that process returned
ProcessOutput ==
    /\ task = "process" /\ phase = "once" /\ res1.ok
    /\ \E iter \in ProcessOrders(res1.v, file_path, options) :
           res12' = process(res1.v, file_path, options, iter)
    /\ phase' = "again"
    /\ UNCHANGED <<task, shape, source, file_path, pathShape, options, recs,
                   parsed, res1, res2, recsOut, barrel, rebuilt, order>>

\* a configuration that differs from o in the four flags that process_file
\* reads for diagnostics only or not at all
Toggle(flag) == IF flag = "Some(true)" THEN "None" ELSE "Some(true)"

OtherFlags(o) ==
    [o EXCEPT !.verbose = Toggle(@), !.optimize = Toggle(@),
              !.convert_namespace_to_named = Toggle(@),
              !.resolve_barrel_exports = Toggle(@)]

\* BarrelLoader::new(OtherFlags(options)).process(source, file_path)
ProcessFlags ==
    /\ task = "process" /\ phase = "once"
    /\ \E iter \in ProcessOrders(source, file_path, OtherFlags(options)) :
           res2' = process(source, file_path, OtherFlags(options), iter)
    /\ phase' = "flags"
    /\ UNCHANGED <<task, shape, source, file_path, pathShape, options, recs,
                   parsed, res1, res12, recsOut, barrel, rebuilt, order>>

\* remove_duplicates(recs)
Dedupe ==
    /\ task = "records" /\ phase = "init"
    /\ recsOut' = remove_duplicates(recs)
    /\ phase' = "deduped"
    /\ UNCHANGED <<task, shape, source, file_path, pathShape, options, recs,
                   parsed, res1, res2, res12, barrel, rebuilt, order>>

\* sort_exports_napi(recs)
Sort ==
    /\ task = "records" /\ phase = "init"
    /\ recsOut' = sort_exports(recs)
    /\ phase' = "sorted"
    /\ UNCHANGED <<task, shape, source, file_path, pathShape, options, recs,
                   parsed, res1, res2, res12, barrel, rebuilt, order>>

\* reconstruct_source_napi(source, recs)
Reconstruct ==
    /\ task = "rebuild" /\ phase = "init"
    /\ \E iter \in IterOrders(group_exports_by_source(recs)) :
           /\ rebuilt' = reconstruct_source(source, recs, iter)
           /\ order' = iter
    /\ phase' = "rebuilt"
    /\ UNCHANGED <<task, shape, source, file_path, pathShape, options, recs,
                   parsed, res1, res2, res12, recsOut, barrel>>

\* reconstruct_source_napi(source, sort_exports_napi(recs))
SortReconstruct ==
    /\ task = "rebuild" /\ phase = "init"
    /\ \E iter \in IterOrders(group_exports_by_source(recs)) :
           /\ rebuilt' = reconstruct_source(source, sort_exports(recs), iter)
           /\ order' = iter
    /\ phase' = "sorted_rebuilt"
    /\ UNCHANGED <<task, shape, source, file_path, pathShape, options, recs,
                   parsed, res1, res2, res12, recsOut, barrel>>

\* BarrelLoader::is_barrel_file(file_path)
Classify ==
    /\ task = "path" /\ phase = "init"
    /\ barrel' = is_barrel_file(file_path)
    /\ phase' = "classified"
    /\ UNCHANGED <<task, shape, source, file_path, pathShape, options, recs,
                   parsed, res1, res2, res12, recsOut, rebuilt, order>>

Next ==
    \/ Parse
    \/ ProcessFirst
    \/ ProcessRepeat
    \/ ProcessOutput
    \/ ProcessFlags
    \/ Dedupe
    \/ Sort
    \/ Reconstruct
    \/ SortReconstruct
    \/ Classify

Spec == Init /\ [][Next]_vars

(***************************************************************************)
(* Properties.                                                             *)
(***************************************************************************)
\* the records that come from line i of the source
RecordsOfLine(records, i) ==
    LET FromLine(r) == r.line = i
    IN  SelectSeq(records, FromLine)

SpecifiersOf(records) == [k \in 1..Len(records) |-> records[k].specifier]

\* the text between the braces of a default statement, trimmed
DefaultToken(d) ==
    DEFAULT \o (IF Len(d.alias) > 0 THEN SP \o AS \o SP \o d.alias ELSE <<>>)

\* the names written in the brace list of a line, left to right
ItemNames(d) ==
    LET names == [k \in 1..Len(d.items) |-> d.items[k].name]
    IN  SelectSeq(names, IsNonEmpty)

\* the non-empty trimmed comma-separated tokens of the brace contents
BraceTokens(d) == IF d.form = "default" THEN <<DefaultToken(d)>> ELSE ItemNames(d)

\* a line shape that yields no record: not export-prefixed, no pattern
\* matches, or a brace list without a usable token
NoRecordShape(d) ==
    \/ d.form = "raw"
    \/ d.form = "named" /\ Len(ItemNames(d)) = 0

\* the four fields that make two records duplicates of each other
Tuple4(r) == <<r.export_type, r.specifier, r.source, r.is_type_export>>

\* the first occurrence of every distinct tuple, in the original order
RECURSIVE FirstOccurrences(_, _)
FirstOccurrences(records, seen) ==
    IF Len(records) = 0 THEN <<>>
    ELSE IF Tuple4(records[1]) \in seen THEN FirstOccurrences(Tail(records), seen)
    ELSE <<records[1]>>
             \o FirstOccurrences(Tail(records), seen \cup {Tuple4(records[1])})

DistinctTuples(records) == {Tuple4(records[k]) : k \in 1..Len(records)}

FourNames == {INDEX_TS, INDEX_JS, INDEX_TSX, INDEX_JSX}

\* the text after the last separator of a path
FinalSegment(path) ==
    LET pieces == Split(path, "/")
    IN  pieces[Len(pieces)]

\* a barrel path: the final segment is one of the four names
BarrelNamed(path) == FinalSegment(path) \in FourNames

\* a named re-export of one specifier in the form reconstruct_source writes,
\* whose names do not themselves hold the text "export"
CanonicalSingle(d) ==
    /\ d.form = "named" /\ ~d.typed
    /\ d.indent = <<>> /\ d.gap = SP /\ d.quote = "\"" /\ d.tail = SEMI
    /\ Len(d.items) = 1
    /\ d.items[1].pre = SP /\ d.items[1].post = SP /\ Len(d.items[1].name) > 0
    /\ ~Contains(d.module, EXPORT) /\ ~Contains(d.items[1].name, EXPORT)

\* C1: under the default configuration process(process(s, p), p) = process(s, p),
\* also for sources with two or more origin modules and with leading
\* non-export lines.
C1_Idempotent ==
    (task = "process" /\ phase = "again" /\ options = DefaultOptions)
        => res12 = res1

\* C2: remove_duplicates keeps exactly the first occurrence of each distinct
\* (kind, specifier, origin_module, is_type_only) tuple, in the original order;
\* records are duplicates only if all four fields are equal, also when a
\* specifier or origin_module contains ':'.
C2_StableFilter ==
    (task = "records" /\ phase = "deduped")
        => /\ recsOut = FirstOccurrences(recs, {})
           /\ Len(recsOut) = Cardinality(DistinctTuples(recs))

\* C3: two invocations of process with the same source, path and configuration
\* return the same text, also when the records belong to two or more origin
\* modules.
C3_Deterministic ==
    (task = "process" /\ phase = "twice") => res2 = res1

\* C4: a line `export [type] { default [as <alias>] } from "<module>"` gives
\* exactly one record, of kind Default, whose specifier is the alias when there
\* is one and "default" otherwise.
C4_DefaultRecord ==
    (task = "process" /\ phase = "parsed")
        => \A i \in 1..Len(shape) :
               shape[i].form = "default"
                   => LET rs == RecordsOfLine(parsed.v, i)
                      IN  /\ Len(rs) = 1
                          /\ rs[1].export_type = DEFAULT
                          /\ rs[1].specifier =
                                 (IF Len(shape[i].alias) > 0 THEN shape[i].alias
                                  ELSE DEFAULT)

C7_BasenameOnly ==
    (task = "path" /\ phase = "classified")
        => (barrel <=> (pathShape.ending = <<>> /\ pathShape.base \in FourNames))

\* C8: for a path that is not a barrel path, process returns the source text
\* unchanged, byte for byte, under every configuration, and never an error.
C8_NonBarrelUnchanged ==
    (task = "process" /\ phase = "once" /\ ~BarrelNamed(file_path))
        => res1 = Ok(source)

\* C9: for a barrel path, when parsing the source yields no record, process
\* returns the source text unchanged, byte for byte, under every configuration.
C9_NoRecordsUnchanged ==
    (/\ task = "process" /\ phase = "once"
     /\ BarrelNamed(file_path)
     /\ Len(parse_exports(source).v) = 0)
        => res1 = Ok(source)

C9_Witness ==
    /\ task = "process" /\ phase = "once"
    /\ file_path = BarrelPath
    /\ shape = <<LineImport, LineConst>>
    /\ options.sort = "Some(true)"
    /\ res1.v = source

\* C10: parse_exports returns Ok for every source text; a line whose trimmed
\* form does not start with `export`, or that matches none of the three
\* patterns, contributes no record.
C10_ParseNeverFails ==
    (task = "process" /\ phase = "parsed")
        => /\ parsed.ok
           /\ \A i \in 1..Len(shape) :
                  NoRecordShape(shape[i]) => Len(RecordsOfLine(parsed.v, i)) = 0

C10_Witness ==
    /\ task = "process" /\ phase = "parsed"
    /\ shape = <<LineCommented, LineUnquoted>>
    /\ parsed.ok /\ Len(parsed.v) = 0

\* a comes before b in the lexicographic order of the bytes: b goes on where
\* a ends, or the first byte in which they differ is smaller in a
StrBefore(a, b) ==
    \E k \in 1..Len(b) :
        /\ \A j \in 1..(k - 1) : j <= Len(a) /\ a[j] = b[j]
        /\ (k > Len(a) \/ Ord(a[k]) < Ord(b[k]))

\* the sort key of a record, and the order of two keys
SortKey(r) == <<r.source, r.specifier>>

KeyBefore(r, t) ==
    \/ StrBefore(r.source, t.source)
    \/ r.source = t.source /\ StrBefore(r.specifier, t.specifier)

\* the records with the sort key of r, in the order of the sequence
WithKeyOf(records, r) ==
    LET SameKey(t) == SortKey(t) = SortKey(r)
    IN  SelectSeq(records, SameKey)

\* C11: sort_exports returns a permutation of its input in ascending order of
\* origin_module and then of specifier (byte-wise comparison); no other field
\* takes part, so records with equal keys keep their order; sorting the result
\* again changes nothing.
C11_SortOrder ==
    (task = "records" /\ phase = "sorted")
        => /\ Len(recsOut) = Len(recs)
           /\ \A k \in 1..Len(recs) :
                  WithKeyOf(recsOut, recs[k]) = WithKeyOf(recs, recs[k])
           /\ \A i, j \in 1..Len(recsOut) :
                  i < j => ~KeyBefore(recsOut[j], recsOut[i])
           /\ sort_exports(recsOut) = recsOut

C11_Witness ==
    /\ task = "records" /\ phase = "sorted"
    /\ recs = <<Rec(NAMED, <<"a">>, <<"c">>, FALSE, 2),
                Rec(NAMED, <<"B">>, <<"b">>, FALSE, 2),
                Rec(DEFAULT, <<"a">>, <<"c">>, FALSE, 1)>>
    /\ recsOut = <<recs[2], recs[1], recs[3]>>

\* C12: the text returned by process depends only on the source, the path,
\* `sort` and `remove_duplicates`: under two configurations that differ only
\* in verbose, optimize, convert_namespace_to_named and resolve_barrel_exports,
\* process returns the same text for the same source and path.
C12_FlagsIgnored ==
    (task = "process" /\ phase = "flags") => res2 = res1

\* C13: a line `export [type] * [as <alias>] from "<module>"`, the module in
\* single or double quotes, gives exactly one record, of kind Namespace, whose
\* specifier is the alias when there is one and "*" otherwise, and whose
\* origin_module is the quoted path.
C13_NamespaceRecord ==
    (task = "process" /\ phase = "parsed")
        => \A i \in 1..Len(shape) :
               shape[i].form = "namespace"
                   => LET rs == RecordsOfLine(parsed.v, i)
                      IN  /\ Len(rs) = 1
                          /\ rs[1].export_type = NAMESPACE
                          /\ rs[1].specifier =
                                 (IF Len(shape[i].alias) > 0 THEN shape[i].alias
                                  ELSE STAR)
                          /\ rs[1].source = shape[i].module

C13_Witness ==
    /\ task = "process" /\ phase = "parsed"
    /\ shape = <<LineStar, LineTypeStarAs>>
    /\ Len(parsed.v) = 2
    /\ parsed.v[2].specifier = <<"n", "s">>

\* C14: reconstruct_source called with an empty record list returns the
\* original text unchanged, byte for byte: no header line is dropped and no
\* trailing line is added.
C14_EmptyListUnchanged ==
    (task = "rebuild" /\ phase = "rebuilt" /\ Len(recs) = 0)
        => rebuilt = source

C14_Witness ==
    /\ task = "rebuild" /\ phase = "rebuilt" /\ Len(recs) = 0
    /\ shape = <<LineIndentedComment, LineButton>>
    /\ Len(source) > 0 /\ source[Len(source)] # NL
    /\ rebuilt = source

\* the sequences that hold the records of a sequence in some order
Rearranged(records) ==
    LET n == Len(records)
        Shuffles == {f \in [1..n -> 1..n] : \A i, j \in 1..n : i # j => f[i] # f[j]}
    IN  {[i \in 1..n |-> records[f[i]]] : f \in Shuffles}

\* C15: two record sequences that hold the same multiset of records for every
\* origin-module group, in whatever order, give byte-identical statement
\* lines for each group, with sort disabled as well as enabled.
C15_Canonical ==
    (task = "rebuild" /\ phase \in {"rebuilt", "sorted_rebuilt"})
        => \A other \in Rearranged(recs) :
               reconstruct_source(source,
                                  IF phase = "rebuilt" THEN other
                                  ELSE sort_exports(other),
                                  order) = rebuilt

\* C15 as amended: the statement lines are the same when both sequences went
\* through sort_exports before reconstruct_source (sort enabled).
C15_CanonicalWhenSorted ==
    (task = "rebuild" /\ phase = "sorted_rebuilt")
        => \A other \in Rearranged(recs) :
               reconstruct_source(source, sort_exports(other), order) = rebuilt

C15_Witness ==
    /\ task = "rebuild" /\ phase = "sorted_rebuilt"
    /\ recs = <<Rec(NAMED, <<"a", ":", "b">>, <<"c">>, FALSE, 1),
                Rec(NAMESPACE, <<"*">>, <<"c">>, FALSE, 3),
                Rec(NAMED, <<"a">>, <<"c">>, FALSE, 1)>>
    /\ rebuilt # reconstruct_source(source, recs, order)

\* C16: for every line that yields records, is_type_only is true exactly when
\* the statement carries the `type` modifier after `export` (separated by any
\* whitespace); `export type` occurring elsewhere on the line, e.g. in the
\* module path, does not make a value statement type-only.
C16_TypeModifier ==
    (task = "process" /\ phase = "parsed")
        => \A k \in 1..Len(parsed.v) :
               parsed.v[k].is_type_export = shape[parsed.v[k].line].typed

\* a re-export statement of a module: `export [type] <body> from "<module>";`
Statement(is_type, body, module) ==
    EXPORT \o SP \o (IF is_type THEN TYPE \o SP ELSE <<>>) \o body
        \o SP \o FROM \o SP \o Q \o module \o Q \o SEMI

NamespaceBody(r) ==
    IF r.specifier = STAR THEN STAR ELSE STAR \o SP \o AS \o SP \o r.specifier

DefaultBody(r) ==
    IF r.specifier = DEFAULT THEN <<"{", " ">> \o DEFAULT \o <<" ", "}">>
    ELSE <<"{", " ">> \o DEFAULT \o SP \o AS \o SP \o r.specifier \o <<" ", "}">>

NamedBody(rs) ==
    <<"{", " ">> \o Join(SpecifiersOf(rs), <<",", " ">>) \o <<" ", "}">>

\* the records of a module, of one pass and one kind, in sequence order
OfKind(records, module, is_type, kind) ==
    LET Wanted(r) == r.source = module /\ r.is_type_export = is_type
                         /\ r.export_type = kind
    IN  SelectSeq(records, Wanted)

NamespaceStatements(rs, module, is_type) ==
    [k \in 1..Len(rs) |-> Statement(is_type, NamespaceBody(rs[k]), module)]

DefaultStatements(rs, module, is_type) ==
    [k \in 1..Len(rs) |-> Statement(is_type, DefaultBody(rs[k]), module)]

NamedStatements(rs, module, is_type) ==
    IF Len(rs) = 0 THEN <<>> ELSE <<Statement(is_type, NamedBody(rs), module)>>

\* the lines of one pass over a module group
PassStatements(records, module, is_type) ==
    NamespaceStatements(OfKind(records, module, is_type, NAMESPACE), module, is_type)
        \o DefaultStatements(OfKind(records, module, is_type, DEFAULT), module, is_type)
        \o NamedStatements(OfKind(records, module, is_type, NAMED), module, is_type)

\* the statement lines of the module groups, taken in the order modules
RECURSIVE AllStatements(_, _)
AllStatements(records, modules) ==
    IF Len(modules) = 0 THEN <<>>
    ELSE PassStatements(records, modules[1], FALSE)
             \o PassStatements(records, modules[1], TRUE)
             \o AllStatements(records, Tail(modules))

\* lines ends with the lines of stmts and one empty line after them
EndsWithStatements(lines, stmts) ==
    /\ Len(stmts) > 0
    /\ Len(lines) > Len(stmts)
    /\ SubSeq(lines, Len(lines) - Len(stmts), Len(lines) - 1) = stmts
    /\ lines[Len(lines)] = <<>>

\* C17: for a non-empty record list, reconstruct_source emits for each
\* origin-module group the value-export lines before the type-export lines;
\* each of the two passes gives one line per Namespace record, then one line
\* per Default record, then, when there is a Named record, one Named line
\* with the specifiers joined by ", " in sequence order; the output ends with
\* one empty line.
C17_StatementOrder ==
    (task = "rebuild" /\ phase = "rebuilt" /\ Len(recs) > 0)
        => EndsWithStatements(Split(rebuilt, NL), AllStatements(recs, order))

C17_Witness ==
    /\ task = "rebuild" /\ phase = "rebuilt"
    /\ recs = <<Rec(NAMED, <<"a">>, <<"c">>, TRUE, 1),
                Rec(NAMESPACE, <<"n", "s">>, <<"c">>, TRUE, 3),
                Rec(DEFAULT, <<"a">>, <<"c">>, FALSE, 1)>>
    /\ Len(Split(rebuilt, NL)) = 5

\* the lines of the file as they were written
WrittenLines(shapes) == [k \in 1..Len(shapes) |-> RenderLine(shapes[k])]

ExportPrefixed(line) == StartsWith(Trim(line), EXPORT)

\* the lines before the first line whose trimmed form starts with `export`
RECURSIVE BeforeFirstExport(_)
BeforeFirstExport(lines) ==
    IF Len(lines) = 0 \/ ExportPrefixed(lines[1]) THEN <<>>
    ELSE <<lines[1]>> \o BeforeFirstExport(Tail(lines))

\* a line that is copied: not blank and not starting with "//"
CopiedAsWritten(line) == Len(Trim(line)) > 0 /\ ~StartsWith(line, SLASHES)

\* a line that is copied: its trimmed form is not empty and does not start
\* with "//"
CopiedAsTrimmed(line) == Len(Trim(line)) > 0 /\ ~StartsWith(Trim(line), SLASHES)

SameTuples(before, after) ==
    Len(before) > 0 => DistinctTuples(after) = DistinctTuples(before)

\* C19: normalization neither loses nor invents exports: for a barrel source
\* that parses to at least one record, under the default configuration the
\* set of (kind, specifier, origin_module, is_type_only) tuples parsed from
\* the text that process returns is the set parsed from the source.
C19_ExportsPreserved ==
    (/\ task = "process" /\ phase = "once"
     /\ file_path = BarrelPath /\ options = DefaultOptions)
        => /\ res1.ok
           /\ SameTuples(parse_exports(source).v, parse_exports(res1.v).v)

\* the end of every statement line of a module
FromClause(module) == SP \o FROM \o SP \o Q \o module \o Q \o SEMI

EndsWith(s, p) ==
    Len(s) >= Len(p) /\ SubSeq(s, Len(s) - Len(p) + 1, Len(s)) = p

\* in lines, every statement of module m1 stands before every one of m2
StatementsBefore(lines, m1, m2) ==
    \A i, j \in 1..Len(lines) :
        (EndsWith(lines[i], FromClause(m1)) /\ EndsWith(lines[j], FromClause(m2)))
            => i < j

\* the groups of lines come in ascending order of the modules of records
GroupsAscending(lines, records) ==
    \A r, t \in {records[k] : k \in 1..Len(records)} :
        StrBefore(r.source, t.source) => StatementsBefore(lines, r.source, t.source)

\* C20: with `sort` enabled the order of sort_exports survives into the
\* output of process: the statements of a module group with a smaller
\* origin_module come before those of a group with a larger origin_module.
C20_SortedGroups ==
    (/\ task = "process" /\ phase = "once"
     /\ file_path = BarrelPath /\ options.sort = "Some(true)")
        => /\ res1.ok
           /\ GroupsAscending(Split(res1.v, NL), parse_exports(source).v)

====
